---- MODULE Spec2Model ----
(***************************************************************************)
(* Model of scripts/simulate_flight.py: read_waypoints, the geodesy        *)
(* helpers, interpolate_position and the per-second loop of                *)
(* simulate_flight.                                                        *)
(*                                                                         *)
(* Arithmetic.  The program computes in floating point; the model computes *)
(* exactly.  Distances are integers counted in units of 1/3600 nautical    *)
(* mile, so that one second at s knots covers exactly s units.  Latitudes  *)
(* and longitudes are integers counted in the angle that subtends one such *)
(* unit on the sphere of radius R (3440.065 nm), and every modelled route  *)
(* lies on the prime meridian or on the equator, where the haversine       *)
(* formula reduces to R * |difference of angles|.  Quotients (fraction,    *)
(* interpolated position, unit conversions) are exact rationals, kept as   *)
(* records [n |-> numerator, d |-> denominator] with d > 0 and compared    *)
(* in lowest terms.                                                        *)
(***************************************************************************)
EXTENDS Integers, Sequences, FiniteSets

VARIABLES
    csv_rows,                \* the rows of the waypoint file (input)
    speed_knots,             \* --speed
    dest_ip,                 \* --ip, or None
    pc,                      \* "args", "read", "loop", "done", "error"
    waypoints,               \* the list read_waypoints returned
    current_wp_idx,          \* 0-based index of the current segment's first waypoint
    distance_along_segment,
    elapsed_time,
    segment_distance,        \* the loop's locals, as the last iteration left them
    fraction,
    pos,
    heading,
    output                   \* position lines printed and datagrams sent, in order

vars == <<csv_rows, speed_knots, dest_ip, pc, waypoints, current_wp_idx,
          distance_along_segment, elapsed_time, segment_distance, fraction,
          pos, heading, output>>

-----------------------------------------------------------------------------
(* Bounds of the model *)

MaxRows == 4

MaxCoord == 2

GridStep == 90

MaxTicks == 12

None == "None"

Coords == {c * GridStep : c \in 0..MaxCoord}

Speeds == {0, GridStep, 120}

DestIPs == {None, "192.0.2.7"}

-----------------------------------------------------------------------------
(* Exact rationals *)

RECURSIVE GCD(_, _)
GCD(a, b) == IF b = 0 THEN a ELSE GCD(b, a % b)

Abs(x) == IF x < 0 THEN -x ELSE x

Rat(n, d) == [n |-> n, d |-> d]

\* n / d in lowest terms
Norm(a) == LET g == GCD(Abs(a.n), a.d) IN [n |-> a.n \div g, d |-> a.d \div g]

RatInt(i) == Rat(i, 1)

RatEq(a, b) == Norm(a) = Norm(b)

RatLeq(a, b) == a.n * b.d <= b.n * a.d

RatMul(a, b) == Rat(a.n * b.n, a.d * b.d)

RatAdd(a, b) == Rat(a.n * b.d + b.n * a.d, a.d * b.d)

\* ceil(n / d) for n >= 0, d > 0
Ceil(n, d) == (n + d - 1) \div d

-----------------------------------------------------------------------------
(* The waypoint file *)

\* A numeric column of a row: text float() accepts, text it rejects, or no
\* text at all (a short row).
Num(v) == [kind |-> "number", val |-> v]

NonNumeric == [kind |-> "text", val |-> 0]

Missing == [kind |-> "missing", val |-> 0]

Row(name, lat, lon, alt) ==
    [Waypoint |-> name, Latitude |-> lat, Longitude |-> lon, Altitude |-> alt]

\* The k-th fix of a route: its name, and its altitude (0 ft and 1000 ft in turn).
FixNames == <<"ALFA", "BRAVO", "CHARLIE", "DELTA", "ECHO", "FOXTROT", "GOLF", "HOTEL">>

NameAt(k) == FixNames[((k - 1) % Len(FixNames)) + 1]

AltAt(k) == IF k % 2 = 1 THEN 0 ELSE 1000

\* Well-formed files of a route along the prime meridian / along the equator:
\* up to MaxRows rows, the k-th at one of the grid's coordinates.
MeridianFiles ==
    UNION { { [k \in 1..n |-> Row(NameAt(k), Num(cs[k]), Num(0), Num(AltAt(k)))]
              : cs \in [1..n -> Coords] } : n \in 0..MaxRows }

EquatorFiles ==
    UNION { { [k \in 1..n |-> Row(NameAt(k), Num(0), Num(cs[k]), Num(AltAt(k)))]
              : cs \in [1..n -> Coords] } : n \in 0..MaxRows }

\* Rows with one column that does not convert.
BadRows(k) == { Row(NameAt(k), NonNumeric, Num(0), Num(AltAt(k))),
                Row(NameAt(k), Num(0), Missing, Num(AltAt(k))),
                Row(NameAt(k), Num(0), Num(0), NonNumeric) }

ZeroFile(n) == [k \in 1..n |-> Row(NameAt(k), Num(0), Num(0), Num(AltAt(k)))]

\* Files with one bad row, at any place.
BadFiles ==
    UNION { UNION { { [ZeroFile(n) EXCEPT ![k] = b] : b \in BadRows(k) }
                    : k \in 1..n } : n \in 1..MaxRows }

Files == MeridianFiles \cup EquatorFiles \cup BadFiles

\* float(text) raises unless the text is a number
FloatRaises(cell) == cell.kind # "number"

\* a reader that converts the altitude only when it is used
RowRaisesLatLonOnly(row) ==
    FloatRaises(row.Latitude) \/ FloatRaises(row.Longitude)

RowRaises(row) ==
    FloatRaises(row.Latitude) \/ FloatRaises(row.Longitude) \/ FloatRaises(row.Altitude)

ParseRow(row) ==
    [name |-> row.Waypoint, lat |-> row.Latitude.val,
     lon |-> row.Longitude.val, alt |-> row.Altitude.val]

-----------------------------------------------------------------------------
(* Geodesy and interpolation *)

haversine_distance(lat1, lon1, lat2, lon2) ==
    IF lon1 = lon2 THEN Abs(lat2 - lat1) ELSE Abs(lon2 - lon1)

\* atan2(x, y) in degrees, normalised to [0, 360), for x or y zero
calculate_bearing(lat1, lon1, lat2, lon2) ==
    LET x == lon2 - lon1
        y == lat2 - lat1
        bearing_deg == IF x = 0 THEN (IF y < 0 THEN 180 ELSE 0)
                       ELSE (IF x > 0 THEN 90 ELSE -90)
    IN  (bearing_deg + 360) % 360

Lerp(a, b, f) == RatAdd(RatInt(a), RatMul(RatInt(b - a), f))

interpolate_position(wp1, wp2, f) ==
    [lat |-> Lerp(wp1.lat, wp2.lat, f),
     lon |-> Lerp(wp1.lon, wp2.lon, f),
     alt |-> Lerp(wp1.alt, wp2.alt, f)]

-----------------------------------------------------------------------------
(* simulate_flight *)

\* waypoints[i] of the program (0-based)
WP(i) == waypoints[i + 1]

\* waypoints[-1], waypoints[-2]
FinalWP == waypoints[Len(waypoints)]

PrevWP == waypoints[Len(waypoints) - 1]

SegmentDistance(i) == haversine_distance(WP(i).lat, WP(i).lon, WP(i + 1).lat, WP(i + 1).lon)

\* the conversion with 7200 for 3600
speed_nm_per_sec_7200(knots) == knots \div 2

speed_nm_per_sec(knots) == knots

speed_mps(knots) == Rat(knots * 514444, 1000000)

Fraction(dist, seg) == IF seg > 0 THEN Rat(dist, seg) ELSE RatInt(1)

\* 0.3048 = 381 / 1250
FeetToMeters(alt) == RatMul(alt, Rat(381, 1250))

PositionLine(t, label, p, hdg) ==
    [kind |-> "record", elapsed |-> t, label |-> label,
     lat |-> p.lat, lon |-> p.lon, alt |-> p.alt, heading |-> hdg]

\* the message with latitude and longitude in each other's place
DatagramLatLon(p, hdg, knots) ==
    [kind |-> "datagram", tag |-> "XGPSSimulator", lon |-> p.lat, lat |-> p.lon,
     alt_meters |-> FeetToMeters(p.alt), heading |-> hdg, speed |-> speed_mps(knots)]

Datagram(p, hdg, knots) ==
    [kind |-> "datagram", tag |-> "XGPSSimulator", lon |-> p.lon, lat |-> p.lat,
     alt_meters |-> FeetToMeters(p.alt), heading |-> hdg, speed |-> speed_mps(knots)]

\* the print, then the sendto when a socket was opened
Emit(line, dgram) ==
    IF dest_ip # None THEN <<line, dgram>> ELSE <<line>>

\* the label that names the waypoint behind instead of the one ahead
wp_label_behind(wp1, wp2) == [arrow |-> TRUE, name |-> wp1.name]

\* lines 139-142: both branches build the same label
wp_label(wp1, wp2) == [arrow |-> TRUE, name |-> wp2.name]

\* a rollover that never moves to the next segment
RolloverStays(dist, seg, idx) ==
    IF dist >= seg THEN [dist |-> dist - seg, idx |-> idx]
    ELSE [dist |-> dist, idx |-> idx]

\* a rollover that tests > for >=
RolloverStrict(dist, seg, idx) ==
    IF dist > seg THEN [dist |-> dist - seg, idx |-> idx + 1]
    ELSE [dist |-> dist, idx |-> idx]

\* a rollover that drops the overshoot
RolloverResets(dist, seg, idx) ==
    IF dist >= seg THEN [dist |-> 0, idx |-> idx + 1]
    ELSE [dist |-> dist, idx |-> idx]

\* a rollover that loops: it keeps subtracting while segments are covered
RECURSIVE RolloverCascades(_, _, _)
RolloverCascades(dist, seg, idx) ==
    IF dist >= seg
    THEN IF idx + 1 < Len(waypoints) - 1
         THEN RolloverCascades(dist - seg, SegmentDistance(idx + 1), idx + 1)
         ELSE [dist |-> dist - seg, idx |-> idx + 1]
    ELSE [dist |-> dist, idx |-> idx]

\* lines 155-160: advance, then one subtract-and-advance when the segment is covered
Rollover(dist, seg, idx) ==
    IF dist >= seg THEN [dist |-> dist - seg, idx |-> idx + 1]
    ELSE [dist |-> dist, idx |-> idx]

\* the process before its command line is parsed
Init ==
    /\ csv_rows = <<>>
    /\ speed_knots = 120
    /\ dest_ip = None
    /\ pc = "args"
    /\ waypoints = <<>>
    /\ current_wp_idx = 0
    /\ distance_along_segment = 0
    /\ elapsed_time = 0
    /\ segment_distance = 0
    /\ fraction = RatInt(0)
    /\ pos = [lat |-> RatInt(0), lon |-> RatInt(0), alt |-> RatInt(0)]
    /\ heading = 0
    /\ output = <<>>

\* parser.parse_args(), and the file the path names
parse_args ==
    /\ pc = "args"
    /\ csv_rows' \in Files
    /\ speed_knots' \in Speeds
    /\ dest_ip' \in DestIPs
    /\ pc' = "read"
    /\ UNCHANGED <<waypoints, current_wp_idx, distance_along_segment, elapsed_time,
                   segment_distance, fraction, pos, heading, output>>

\* read_waypoints succeeds: every row converts
read_waypoints ==
    /\ pc = "read"
    /\ \A k \in 1..Len(csv_rows) : ~RowRaises(csv_rows[k])
    /\ waypoints' = [k \in 1..Len(csv_rows) |-> ParseRow(csv_rows[k])]
    /\ pc' = "loop"
    /\ UNCHANGED <<csv_rows, speed_knots, dest_ip, current_wp_idx,
                   distance_along_segment, elapsed_time, segment_distance,
                   fraction, pos, heading, output>>

\* read_waypoints raises on the first row that does not convert
read_waypoints_raises ==
    /\ pc = "read"
    /\ \E k \in 1..Len(csv_rows) : RowRaises(csv_rows[k])
    /\ pc' = "error"
    /\ UNCHANGED <<csv_rows, speed_knots, dest_ip, waypoints, current_wp_idx,
                   distance_along_segment, elapsed_time, segment_distance,
                   fraction, pos, heading, output>>

\* one iteration of the while loop
Tick ==
    /\ pc = "loop"
    /\ current_wp_idx < Len(waypoints) - 1
    /\ elapsed_time < MaxTicks
    /\ LET wp1 == WP(current_wp_idx)
           wp2 == WP(current_wp_idx + 1)
           seg == haversine_distance(wp1.lat, wp1.lon, wp2.lat, wp2.lon)
           f   == Fraction(distance_along_segment, seg)
           p   == interpolate_position(wp1, wp2, f)
           hdg == calculate_bearing(wp1.lat, wp1.lon, wp2.lat, wp2.lon)
           label == wp_label(wp1, wp2)
           r   == Rollover(distance_along_segment + speed_nm_per_sec(speed_knots),
                           seg, current_wp_idx)
       IN  /\ segment_distance' = seg
           /\ fraction' = f
           /\ pos' = p
           /\ heading' = hdg
           /\ output' = output \o Emit(PositionLine(elapsed_time, label, pos', heading'),
                                       Datagram(pos', heading', speed_knots))
           /\ distance_along_segment' = r.dist
           /\ current_wp_idx' = r.idx
           /\ elapsed_time' = elapsed_time + 1
    /\ UNCHANGED <<csv_rows, speed_knots, dest_ip, pc, waypoints>>

\* after the loop: the final line and datagram
Arrive ==
    /\ pc = "loop"
    /\ ~(current_wp_idx < Len(waypoints) - 1)
    /\ Len(waypoints) >= 2
    /\ LET final_wp == FinalWP
           prev_wp == PrevWP
           final_heading == calculate_bearing(prev_wp.lat, prev_wp.lon,
                                              final_wp.lat, final_wp.lon)
           p == [lat |-> RatInt(final_wp.lat), lon |-> RatInt(final_wp.lon),
                 alt |-> RatInt(final_wp.alt)]
           label == [arrow |-> FALSE, name |-> final_wp.name]
       IN  output' = output \o Emit(PositionLine(elapsed_time, label, p, final_heading),
                                    Datagram(p, final_heading, speed_knots))
    /\ pc' = "done"
    /\ UNCHANGED <<csv_rows, speed_knots, dest_ip, waypoints, current_wp_idx,
                   distance_along_segment, elapsed_time, segment_distance,
                   fraction, pos, heading>>

\* after the loop with fewer than two waypoints: waypoints[-1] or waypoints[-2]
\* raises IndexError before anything is printed
ArriveRaises ==
    /\ pc = "loop"
    /\ ~(current_wp_idx < Len(waypoints) - 1)
    /\ Len(waypoints) < 2
    /\ pc' = "error"
    /\ UNCHANGED <<csv_rows, speed_knots, dest_ip, waypoints, current_wp_idx,
                   distance_along_segment, elapsed_time, segment_distance,
                   fraction, pos, heading, output>>

Next ==
    \/ parse_args
    \/ read_waypoints
    \/ read_waypoints_raises
    \/ Tick
    \/ Arrive
    \/ ArriveRaises

Spec == Init /\ [][Next]_vars

\* The interpreter keeps running the program: a step that can be taken is taken.
FairSpec == Spec /\ WF_vars(Next)

-----------------------------------------------------------------------------
(* Properties *)

IsRecord(e) == e.kind = "record"

IsDatagram(e) == e.kind = "datagram"

Records == SelectSeq(output, IsRecord)

Datagrams == SelectSeq(output, IsDatagram)

Flying == current_wp_idx < Len(waypoints) - 1

RECURSIVE SumSegments(_)
\* the summed distance of the segments with index below i
SumSegments(i) == IF i <= 0 THEN 0 ELSE SumSegments(i - 1) + SegmentDistance(i - 1)

TotalRouteDistance == SumSegments(Len(waypoints) - 1)

\* a step of the loop body: the only step that counts a second
TickStep == pc = "loop" /\ elapsed_time' = elapsed_time + 1

NotANumber(cell) == cell.kind \in {"text", "missing"}

IsBadRow(row) ==
    NotANumber(row.Latitude) \/ NotANumber(row.Longitude) \/ NotANumber(row.Altitude)

BadInput ==
    /\ pc # "args"
    /\ (\E k \in 1..Len(csv_rows) : IsBadRow(csv_rows[k])) \/ Len(csv_rows) < 2

\* C1: at the end of every tick that leaves the loop flying,
\* 0 <= distance_along_segment < the distance of segment current_wp_idx.
C1_RolloverInvariant ==
    (pc = "loop" /\ elapsed_time > 0 /\ Flying) =>
        /\ 0 <= distance_along_segment
        /\ distance_along_segment < SegmentDistance(current_wp_idx)

\* C2: with at least 2 waypoints and a strictly positive speed the loop reaches
\* ARRIVED and prints the final record, and nothing changes after it.
C2_ReachesArrived ==
    /\ (pc = "loop" /\ Len(waypoints) >= 2 /\ speed_knots > 0)
          ~> (pc = "done" /\ current_wp_idx = Len(waypoints) - 1)
    /\ [][pc = "done" => UNCHANGED vars]_vars

C2_Witness ==
    pc = "done" /\ speed_knots > 0 /\ elapsed_time >= 4 /\ Len(waypoints) = 3

C4_FractionInUnitInterval ==
    elapsed_time > 0 => (RatLeq(RatInt(0), fraction) /\ RatLeq(fraction, RatInt(1)))

\* C5: with a destination address every record is directly followed by one
\* datagram carrying its longitude, latitude, heading and its altitude in metres,
\* one per tick plus one for the final record; with none, nothing is sent.
C5_DatagramPerRecord ==
    IF dest_ip = None
    THEN Len(Datagrams) = 0 /\ Len(Records) = Len(output)
    ELSE /\ Len(output) = 2 * (elapsed_time + (IF pc = "done" THEN 1 ELSE 0))
         /\ \A k \in 1..Len(output) :
               IF k % 2 = 1
               THEN IsRecord(output[k])
               ELSE /\ IsDatagram(output[k])
                    /\ output[k].lat = output[k - 1].lat
                    /\ output[k].lon = output[k - 1].lon
                    /\ output[k].heading = output[k - 1].heading
                    /\ RatEq(output[k].alt_meters,
                             RatMul(output[k - 1].alt, Rat(381, 1250)))

C5_Witness ==
    /\ dest_ip # None /\ pc = "done" /\ Len(output) >= 6
    /\ \E k \in 1..Len(output) : IsDatagram(output[k]) /\ output[k].lat.n # output[k].lon.n

\* C6: when a row has a missing or non-numeric latitude, longitude or altitude, or
\* the file holds fewer than 2 waypoints, nothing is ever emitted and the run ends
\* in the error state.
C6_NoOutputOnBadInput ==
    /\ BadInput => (output = <<>> /\ pc \in {"args", "read", "loop", "error"})
    /\ (BadInput /\ pc = "loop") => (~Flying /\ Len(waypoints) < 2)
    /\ (BadInput /\ pc # "error") => ENABLED (read_waypoints_raises \/ read_waypoints \/ ArriveRaises)
    /\ output # <<>> => (Len(waypoints) >= 2 /\ Len(waypoints) = Len(csv_rows))

C6_Witness ==
    /\ pc = "error" /\ Len(csv_rows) = 3 /\ dest_ip # None
    /\ ~IsBadRow(csv_rows[1]) /\ ~IsBadRow(csv_rows[2])
    /\ NotANumber(csv_rows[3].Altitude)

\* C7: record k (from 0) carries elapsed k and names the waypoint ahead at the start
\* of tick k; a run that arrives after N ticks has printed N + 1 records, the last
\* with elapsed N, the last waypoint's name and exact position, and the bearing from
\* the second-to-last to the last waypoint.
C7_Records ==
    /\ [](/\ Len(Records) = elapsed_time + (IF pc = "done" THEN 1 ELSE 0)
          /\ \A k \in 1..Len(Records) : Records[k].elapsed = k - 1
          /\ pc = "done" =>
                LET last == Records[Len(Records)]
                IN  /\ last.elapsed = elapsed_time
                    /\ last.label.name = FinalWP.name
                    /\ RatEq(last.lat, RatInt(FinalWP.lat))
                    /\ RatEq(last.lon, RatInt(FinalWP.lon))
                    /\ RatEq(last.alt, RatInt(FinalWP.alt))
                    /\ last.heading = calculate_bearing(PrevWP.lat, PrevWP.lon,
                                                        FinalWP.lat, FinalWP.lon))
    /\ [][TickStep =>
            /\ Len(Records') = Len(Records) + 1
            /\ Records'[Len(Records')].elapsed = elapsed_time
            /\ Records'[Len(Records')].label.name = WP(current_wp_idx + 1).name]_vars

C7_Witness ==
    /\ pc = "done" /\ elapsed_time >= 3 /\ Len(waypoints) = 3
    /\ waypoints[1].name # waypoints[2].name
    /\ PrevWP.lat > FinalWP.lat

\* C8: a tick on a segment of distance 0 has fraction 1 whatever
\* distance_along_segment is, reports waypoint i+1's position, and ends with the
\* segment index one higher.
C8_ZeroLengthSegment ==
    [][(TickStep /\ SegmentDistance(current_wp_idx) = 0) =>
          /\ fraction'.n = fraction'.d
          /\ RatEq(pos'.lat, RatInt(WP(current_wp_idx + 1).lat))
          /\ RatEq(pos'.lon, RatInt(WP(current_wp_idx + 1).lon))
          /\ RatEq(pos'.alt, RatInt(WP(current_wp_idx + 1).alt))
          /\ Records'[Len(Records')].alt = pos'.alt
          /\ Records'[Len(Records')].lat = pos'.lat
          /\ Records'[Len(Records')].lon = pos'.lon
          /\ current_wp_idx' = current_wp_idx + 1]_vars

C8_Witness ==
    /\ elapsed_time >= 2 /\ segment_distance = 0
    /\ distance_along_segment > speed_knots
    /\ pos.alt.n # 0
    /\ WP(current_wp_idx - 1).alt # WP(current_wp_idx).alt

\* C9: a tick leaves the segment index as it is or raises it by exactly one, and
\* every tick starts with 0 <= current_wp_idx <= len(waypoints) - 2, so that both
\* waypoints of the segment exist.
C9_SingleStep ==
    /\ [][current_wp_idx' \in {current_wp_idx, current_wp_idx + 1}]_vars
    /\ []((pc = "loop" /\ Len(waypoints) >= 2) =>
             (0 <= current_wp_idx /\ current_wp_idx <= Len(waypoints) - 1))
    /\ []((pc = "loop" /\ Flying) =>
             /\ current_wp_idx + 1 \in DOMAIN waypoints
             /\ current_wp_idx + 2 \in DOMAIN waypoints)

C9_Witness ==
    /\ pc = "loop" /\ Flying /\ current_wp_idx = 1
    /\ distance_along_segment >= SegmentDistance(current_wp_idx)

\* C10: at the end of every tick and at ARRIVED, the distances of the segments below
\* current_wp_idx plus distance_along_segment equal elapsed_time * speed_knots / 3600.
C10_DistanceConserved ==
    pc \in {"loop", "done"} =>
        SumSegments(current_wp_idx) + distance_along_segment = elapsed_time * speed_knots

C10_Witness ==
    /\ pc = "done" /\ Len(waypoints) = 3 /\ elapsed_time >= 3
    /\ distance_along_segment > 0
    /\ SegmentDistance(0) > 0 /\ SegmentDistance(1) > 0

====
